---- MODULE Spec2Model ----
(***************************************************************************)
(* Simulation core of the snake game in src/src/main.rs (bevy ECS).        *)
(*                                                                         *)
(* One frame of the update stage is the sequence                           *)
(*     snake_movement ; food_spawner ; game_over_system ; apply_commands   *)
(* The three systems are registered in that order (main.rs:307-309).       *)
(* Spawns and despawns issued through Commands are queued and applied only *)
(* when the stage ends (apply_commands); component writes through queries  *)
(* (positions, directions, next_segment links) take effect at once.        *)
(***************************************************************************)
EXTENDS Integers, Sequences, FiniteSets, TLC

---------------------------------------------------------------------------
(* Bounds of the model *)

\* movement ticks explored in a run
MaxTicks == 2
\* food entities that may be alive or queued at once
MaxFood == 2
\* movement ticks explored in a run without input
MaxStraightTicks == 31

---------------------------------------------------------------------------
(* Constants of the program *)

ARENA_WIDTH == 40
ARENA_HEIGHT == 40

Direction == {"Left", "Up", "Right", "Down"}

\* Option<Entity>::None; entities are positive integers
None == 0

Pos(px, py) == [x |-> px, y |-> py]

\* the values of locals that are out of scope
NoPosition == Pos(-9, -9)
NoDirection == "-"

opposite(d) ==
    CASE d = "Left" -> "Right"
      [] d = "Right" -> "Left"
      [] d = "Up" -> "Down"
      [] d = "Down" -> "Up"

\* i32 as u32: the two's complement bit pattern, as its high and low 16-bit
\* halves (TLC's integers are 32-bit signed)
AsU32(v) == [hi |-> (v \div 65536) % 65536, lo |-> v % 65536]

\* a > b on u32
GreaterU32(a, b) == a.hi > b.hi \/ (a.hi = b.hi /\ a.lo > b.lo)

---------------------------------------------------------------------------
(* State *)

VARIABLES
    heads,            \* entity -> SnakeHead [direction, next_segment]
    segments,         \* entity -> SnakeSegment [next_segment]
    positions,        \* entity -> Position
    food,             \* entities carrying Food
    commands,         \* queued Commands of this frame, in system order
    game_over_events, \* GameOverEvents not yet seen by the controller's reader
    keys,             \* Input<KeyCode>: direction keys pressed in this frame
    finished,         \* snake_timer.0.finished
    food_finished,    \* timer.0.finished of the FoodSpawnTimer
    moved_dir,        \* the direction of the head's last advance in this game
    dir,              \* local of snake_movement: the candidate direction
    last_position,    \* local of snake_movement after the traversal
    segment_entity,   \* local of snake_movement after the traversal
    self_hits,        \* events sent by the tail check in this frame (main.rs:171)
    wall_hit,         \* whether the wall check sent an event in this frame (main.rs:203)
    eaten,            \* food entities consumed by snake_movement in this frame
    panicked,         \* an unwrap() failed
    ticks,            \* movement ticks so far
    pc                \* the system to run next

vars == <<heads, segments, positions, food, commands, game_over_events, keys,
          finished, food_finished, moved_dir, dir, last_position,
          segment_entity, self_hits, wall_hit, eaten, panicked, ticks, pc>>

\* main.rs:307-309: the systems of the update stage in the order they were
\* added; the stage ends by applying their queued commands
StageOrder ==
    <<"snake_movement", "food_spawner", "game_over_system", "apply_commands">>

\* the stage with the controller added before the movement system
NextSystemControllerFirst(p) ==
    CASE p = "game_over_system" -> "snake_movement"
      [] p = "snake_movement" -> "food_spawner"
      [] p = "food_spawner" -> "apply_commands"
      [] p = "apply_commands" -> "game_over_system"

\* what runs after p
NextSystem(p) ==
    LET i == CHOOSE k \in 1..Len(StageOrder) : StageOrder[k] = p
    IN  StageOrder[(i % Len(StageOrder)) + 1]

Live == DOMAIN positions

\* entities named by a queued spawn
Reserved(cmds) ==
    {cmds[i].entity : i \in {j \in 1..Len(cmds) : cmds[j].op # "despawn"}}

\* a fresh entity id: in no archetype and not handed out in this frame
NewEntity(cmds) ==
    CHOOSE e \in 1..(Cardinality(Live) + Len(cmds) + 1) :
        e \notin Live \cup Reserved(cmds)

\* every set of direction keys may be down in a frame
KeySets == SUBSET Direction

\* main.rs:234-235: random::<f32>() is k / 2^24 for some k in 0 .. 2^24 - 1
RandomUnit == 16777216

\* the bits by which n exceeds the 24 bits of an f32 significand
RECURSIVE ExcessBits(_)
ExcessBits(n) == IF n < RandomUnit THEN 0 ELSE 1 + ExcessBits(n \div 2)

RECURSIVE Pow2(_)
Pow2(s) == IF s = 0 THEN 1 ELSE 2 * Pow2(s - 1)

\* the f32 nearest to n / 2^24, ties to even, again in units of 2^-24
RoundF32(n) ==
    LET u == Pow2(ExcessBits(n))
        q == n \div u
        r == n % u
    IN  IF 2 * r > u \/ (2 * r = u /\ q % 2 = 1) THEN (q + 1) * u ELSE q * u

\* the coordinate with the product rounded to the nearest integer
FoodCoordinateRounded(k, bound) ==
    (RoundF32(k * bound) + RandomUnit \div 2) \div RandomUnit

\* main.rs:234-235: (random::<f32>() * bound as f32) as i32 for the draw
\* k / 2^24: the f32 product, truncated
FoodCoordinate(k, bound) == RoundF32(k * bound) \div RandomUnit

\* the draws explored by food_spawner: x = 10.0, y = 9.0000002 and 8.0000010
XDraws == {4194304}
YDraws == {3774874, 3355444}

\* the draws explored by food_wide: the least and the greatest value of
\* random::<f32>(), and a cell on the way of the starting head
WideXDraws == {0, 4194304, RandomUnit - 1}
WideYDraws == {0, 4613735, RandomUnit - 1}

Cells(xs, ys) ==
    {Pos(FoodCoordinate(kx, ARENA_WIDTH), FoodCoordinate(ky, ARENA_HEIGHT)) :
        kx \in xs, ky \in ys}

\* the cells of food_spawner: the two cells straight below the starting head
FoodCells == Cells(XDraws, YDraws)

\* the cells of food_wide
WideFoodCells == Cells(WideXDraws, WideYDraws)

---------------------------------------------------------------------------
(* spawn_segment, spawn_initial_snake *)

spawn_segment(cmds, position) ==
    Append(cmds, [op |-> "spawn_segment", entity |-> NewEntity(cmds),
                  next_segment |-> None, position |-> position])

spawn_initial_snake(cmds) ==
    LET c1 == spawn_segment(cmds, Pos(10, 9))
        first_segment == c1[Len(c1)].entity
    IN  Append(c1, [op |-> "spawn_head", entity |-> NewEntity(c1),
                    direction |-> "Up", next_segment |-> first_segment,
                    position |-> Pos(10, 10)])

---------------------------------------------------------------------------
(* Commands applied at the end of the stage *)

Without(f, e) == [k \in DOMAIN f \ {e} |-> f[k]]

With(f, e, v) == [k \in DOMAIN f \cup {e} |-> IF k = e THEN v ELSE f[k]]

ApplyCommand(w, c) ==
    CASE c.op = "despawn" ->
            [heads |-> Without(w.heads, c.entity),
             segments |-> Without(w.segments, c.entity),
             positions |-> Without(w.positions, c.entity),
             food |-> w.food \ {c.entity}]
      [] c.op = "spawn_segment" ->
            [w EXCEPT !.segments = With(@, c.entity, [next_segment |-> c.next_segment]),
                      !.positions = With(@, c.entity, c.position)]
      [] c.op = "spawn_head" ->
            [w EXCEPT !.heads = With(@, c.entity, [direction |-> c.direction,
                                                   next_segment |-> c.next_segment]),
                      !.positions = With(@, c.entity, c.position)]
      [] c.op = "spawn_food" ->
            [w EXCEPT !.food = @ \cup {c.entity},
                      !.positions = With(@, c.entity, c.position)]

RECURSIVE ApplyAll(_, _)
ApplyAll(w, cmds) ==
    IF cmds = <<>> THEN w
    ELSE ApplyAll(ApplyCommand(w, Head(cmds)), Tail(cmds))

---------------------------------------------------------------------------
(* snake_movement *)

\* Candidate with the polls chained by else-if: the first pressed key wins
CandidateFirstWins(ks, current) ==
    IF "Left" \in ks THEN "Left"
    ELSE IF "Right" \in ks THEN "Right"
    ELSE IF "Down" \in ks THEN "Down"
    ELSE IF "Up" \in ks THEN "Up"
    ELSE current

\* main.rs:138-150: the polls run in the order Left, Right, Down, Up and each
\* pressed key overwrites the candidate
Candidate(ks, current) ==
    LET d1 == IF "Left" \in ks THEN "Left" ELSE current
        d2 == IF "Right" \in ks THEN "Right" ELSE d1
        d3 == IF "Down" \in ks THEN "Down" ELSE d2
    IN  IF "Up" \in ks THEN "Up" ELSE d3

\* Commit without the guard
CommitAlways(cand, current) == cand

\* main.rs:152-154
Commit(cand, current) == IF cand # opposite(current) THEN cand ELSE current

\* HitsTail against the position the segment has just been given
HitsTailShifted(head_pos, current_position, new_position) == head_pos = new_position

\* main.rs:170: the comparison of the tail check, made after last_position
\* has taken the visited segment's position from before the shift
HitsTail(head_pos, current_position, new_position) == head_pos = current_position

\* ShiftChain with last_position never updated: every segment gets the head's
\* position
RECURSIVE ShiftChainStale(_, _, _, _, _)
ShiftChainStale(e, last, pos, hits, head_pos) ==
    IF e \notin DOMAIN segments \/ e \notin DOMAIN pos
    THEN [ok |-> FALSE, positions |-> pos, last_position |-> last,
          segment_entity |-> e, hits |-> hits]
    ELSE LET pos2 == [pos EXCEPT ![e] = last]
             hits2 == IF HitsTail(head_pos, last, last) THEN hits + 1 ELSE hits
         IN  IF segments[e].next_segment # None
             THEN ShiftChainStale(segments[e].next_segment, last, pos2, hits2,
                                  head_pos)
             ELSE [ok |-> TRUE, positions |-> pos2, last_position |-> last,
                   segment_entity |-> e, hits |-> hits2]

\* ShiftChain with the tail check made only for a segment that has a successor
RECURSIVE ShiftChainSkipTail(_, _, _, _, _)
ShiftChainSkipTail(e, last, pos, hits, head_pos) ==
    IF e \notin DOMAIN segments \/ e \notin DOMAIN pos
    THEN [ok |-> FALSE, positions |-> pos, last_position |-> last,
          segment_entity |-> e, hits |-> hits]
    ELSE LET current_position == pos[e]
             pos2 == [pos EXCEPT ![e] = last]
         IN  IF segments[e].next_segment # None
             THEN ShiftChainSkipTail(segments[e].next_segment, current_position,
                    pos2,
                    IF HitsTail(head_pos, current_position, last)
                    THEN hits + 1 ELSE hits,
                    head_pos)
             ELSE [ok |-> TRUE, positions |-> pos2,
                   last_position |-> current_position,
                   segment_entity |-> e, hits |-> hits]

\* main.rs:160-179: the traversal from segment e on
RECURSIVE ShiftChain(_, _, _, _, _)
ShiftChain(e, last, pos, hits, head_pos) ==
    IF e \notin DOMAIN segments \/ e \notin DOMAIN pos
    THEN [ok |-> FALSE, positions |-> pos, last_position |-> last,
          segment_entity |-> e, hits |-> hits]
    ELSE LET current_position == pos[e]
             pos2 == [pos EXCEPT ![e] = last]
             hits2 == IF HitsTail(head_pos, current_position, last)
                      THEN hits + 1 ELSE hits
         IN  IF segments[e].next_segment # None
             THEN ShiftChain(segments[e].next_segment, current_position, pos2,
                             hits2, head_pos)
             ELSE [ok |-> TRUE, positions |-> pos2,
                   last_position |-> current_position,
                   segment_entity |-> e, hits |-> hits2]

\* Advance with the y axis pointing down
AdvanceFlipped(p, d) ==
    CASE d = "Left" -> Pos(p.x - 1, p.y)
      [] d = "Right" -> Pos(p.x + 1, p.y)
      [] d = "Up" -> Pos(p.x, p.y - 1)
      [] d = "Down" -> Pos(p.x, p.y + 1)

\* main.rs:182-195
Advance(p, d) ==
    CASE d = "Left" -> Pos(p.x - 1, p.y)
      [] d = "Right" -> Pos(p.x + 1, p.y)
      [] d = "Up" -> Pos(p.x, p.y + 1)
      [] d = "Down" -> Pos(p.x, p.y - 1)

\* HitsWall with >= for >
HitsWallInclusive(p) ==
    \/ p.x < 0
    \/ p.y < 0
    \/ ~GreaterU32(AsU32(ARENA_WIDTH), AsU32(p.x))
    \/ ~GreaterU32(AsU32(ARENA_HEIGHT), AsU32(p.y))

\* HitsWall on the signed coordinates, without the checks against 0
HitsWallUpperOnly(p) == p.x > ARENA_WIDTH \/ p.y > ARENA_HEIGHT

\* main.rs:198-201
HitsWall(p) ==
    \/ p.x < 0
    \/ p.y < 0
    \/ GreaterU32(AsU32(p.x), AsU32(ARENA_WIDTH))
    \/ GreaterU32(AsU32(p.y), AsU32(ARENA_HEIGHT))

MinOf(S) == CHOOSE e \in S : \A o \in S : e <= o

\* EatOne without the link from the old tail
EatOneUnlinked(segs, cmds, ent, tail, last) ==
    [segments |-> segs,
     commands |-> Append(spawn_segment(cmds, last),
                         [op |-> "despawn", entity |-> ent])]

\* EatOne with the old tail linked to the food entity
EatOneLinksFood(segs, cmds, ent, tail, last) ==
    [segments |-> [segs EXCEPT ![tail].next_segment = ent],
     commands |-> Append(spawn_segment(cmds, last),
                         [op |-> "despawn", entity |-> ent])]

\* main.rs:208-212: the body of the food loop for food entity ent
EatOne(segs, cmds, ent, tail, last) ==
    LET c1 == spawn_segment(cmds, last)
        new_segment == c1[Len(c1)].entity
    IN  [segments |-> [segs EXCEPT ![tail].next_segment = new_segment],
         commands |-> Append(c1, [op |-> "despawn", entity |-> ent])]

\* main.rs:206-214: the loop over the food entities at the head's position
\* (the query's iteration order is taken to be the order of the ids)
RECURSIVE EatFood(_, _, _, _, _)
EatFood(todo, segs, cmds, tail, last) ==
    IF todo = {} THEN [segments |-> segs, commands |-> cmds]
    ELSE LET ent == MinOf(todo)
             r == EatOne(segs, cmds, ent, tail, last)
         IN  EatFood(todo \ {ent}, r.segments, r.commands, tail, last)

\* the one entity carrying SnakeHead
TheHead == CHOOSE h \in DOMAIN heads : TRUE

\* the gate of main.rs:156 left open
TimerGateOpen(fin) == TRUE

\* main.rs:156: if snake_timer.0.finished
TimerGate(fin) == fin

\* snake_movement with the pressed keys drawn from KS, for at most limit
\* elapsed ticks
Movement(KS, limit) ==
    /\ pc = "snake_movement"
    /\ ~panicked
    /\ \E ks \in KS, fin \in BOOLEAN :
        /\ fin => ticks < limit
        /\ keys' = ks
        /\ finished' = fin
        /\ ticks' = IF fin THEN ticks + 1 ELSE ticks
        /\ pc' = NextSystem(pc)
        /\ UNCHANGED <<food, food_finished>>
        /\ IF DOMAIN heads = {}
           THEN /\ UNCHANGED <<heads, segments, positions, commands, panicked,
                               game_over_events, moved_dir>>
                /\ dir' = NoDirection
                /\ last_position' = NoPosition
                /\ segment_entity' = None
                /\ self_hits' = 0
                /\ wall_hit' = FALSE
                /\ eaten' = 0
           ELSE LET h == TheHead
                    candidate == Candidate(ks, heads[h].direction)
                    direction == Commit(candidate, heads[h].direction)
                    head_pos == positions[h]
                    sh == ShiftChain(heads[h].next_segment, head_pos, positions,
                                     0, head_pos)
                    new_head == Advance(head_pos, direction)
                    hit == {e \in food : positions[e] = new_head}
                    grown == EatFood(hit, segments, commands, sh.segment_entity,
                                     sh.last_position)
                IN  /\ dir' = candidate
                    /\ heads' = [heads EXCEPT ![h].direction = direction]
                    /\ IF ~TimerGate(fin)
                       THEN /\ UNCHANGED <<segments, positions, commands, panicked,
                                           game_over_events, moved_dir>>
                            /\ last_position' = NoPosition
                            /\ segment_entity' = None
                            /\ self_hits' = 0
                            /\ wall_hit' = FALSE
                            /\ eaten' = 0
                       ELSE IF ~sh.ok
                       THEN /\ panicked' = TRUE
                            /\ UNCHANGED <<segments, positions, commands,
                                           game_over_events, moved_dir>>
                            /\ last_position' = NoPosition
                            /\ segment_entity' = None
                            /\ self_hits' = 0
                            /\ wall_hit' = FALSE
                            /\ eaten' = 0
                       ELSE /\ panicked' = FALSE
                            /\ moved_dir' = direction
                            /\ positions' = [sh.positions EXCEPT ![h] = new_head]
                            /\ last_position' = sh.last_position
                            /\ segment_entity' = sh.segment_entity
                            /\ self_hits' = sh.hits
                            /\ wall_hit' = HitsWall(new_head)
                            /\ game_over_events' = game_over_events + sh.hits
                                    + (IF HitsWall(new_head) THEN 1 ELSE 0)
                            /\ eaten' = Cardinality(hit)
                            /\ segments' = grown.segments
                            /\ commands' = grown.commands

snake_movement == Movement(KeySets, MaxTicks)

\* snake_movement in frames in which no direction key is down
snake_straight == Movement({{}}, MaxStraightTicks)

\* the same frames, for the ticks of snake_movement
snake_coasting == Movement({{}}, MaxTicks)

---------------------------------------------------------------------------
(* food_spawner *)

QueuedFood(cmds) == {i \in 1..Len(cmds) : cmds[i].op = "spawn_food"}

\* main.rs:225-238, with the random cell drawn from cells
Spawner(cells) ==
    /\ pc = "food_spawner"
    /\ \E fin \in BOOLEAN :
        /\ fin => Cardinality(food) + Cardinality(QueuedFood(commands)) < MaxFood
        /\ food_finished' = fin
        /\ IF fin
           THEN \E p \in cells :
                    commands' = Append(commands,
                        [op |-> "spawn_food", entity |-> NewEntity(commands),
                         position |-> p])
           ELSE UNCHANGED commands
    /\ pc' = NextSystem(pc)
    /\ UNCHANGED <<heads, segments, positions, food, game_over_events, keys,
                   finished, moved_dir, dir, last_position, segment_entity,
                   self_hits, wall_hit, eaten, panicked, ticks>>

food_spawner == Spawner(FoodCells)

\* food_spawner with draws from the whole range of random::<f32>()
food_wide == Spawner(WideFoodCells)

---------------------------------------------------------------------------
(* game_over_system *)

\* a query's entities, as a sequence in the order of the ids
RECURSIVE InOrder(_)
InOrder(S) == IF S = {} THEN <<>> ELSE <<MinOf(S)>> \o InOrder(S \ {MinOf(S)})

Despawns(S) == [i \in 1..Cardinality(S) |-> [op |-> "despawn", entity |-> InOrder(S)[i]]]

\* ReaderSees with a reader that moves past one event only
ReaderSeesOne(unread) ==
    [some |-> unread > 0, unread |-> IF unread > 0 THEN unread - 1 ELSE 0]

\* main.rs:251: reader.iter(..).next().is_some(); iter() moves the reader
\* past every event sent so far
ReaderSees(unread) == [some |-> unread > 0, unread |-> 0]

\* main.rs:252-261
Teardown(cmds) ==
    spawn_initial_snake(cmds \o Despawns(DOMAIN segments) \o Despawns(food)
                             \o Despawns(DOMAIN heads))

game_over_system ==
    /\ pc = "game_over_system"
    /\ game_over_events' = ReaderSees(game_over_events).unread
    /\ commands' = IF ReaderSees(game_over_events).some
                   THEN Teardown(commands) ELSE commands
    /\ pc' = NextSystem(pc)
    /\ UNCHANGED <<heads, segments, positions, food, keys, finished,
                   food_finished, moved_dir, dir, last_position, segment_entity,
                   self_hits, wall_hit, eaten, panicked, ticks>>

---------------------------------------------------------------------------
(* End of the stage: the queued commands reach the world *)

World == [heads |-> heads, segments |-> segments, positions |-> positions,
          food |-> food]

apply_commands ==
    /\ pc = "apply_commands"
    /\ LET w == ApplyAll(World, commands)
       IN  /\ heads' = w.heads
           /\ segments' = w.segments
           /\ positions' = w.positions
           /\ food' = w.food
    /\ commands' = <<>>
    \* the frame is over: the locals of snake_movement are gone, and the keys
    \* and the timer are sampled anew before they are read again
    /\ keys' = {}
    /\ finished' = FALSE
    /\ food_finished' = FALSE
    \* a respawned head has not advanced yet
    /\ moved_dir' = IF \E i \in 1..Len(commands) : commands[i].op = "spawn_head"
                    THEN NoDirection ELSE moved_dir
    /\ dir' = NoDirection
    /\ last_position' = NoPosition
    /\ segment_entity' = None
    /\ self_hits' = 0
    /\ wall_hit' = FALSE
    /\ eaten' = 0
    /\ pc' = NextSystem(pc)
    /\ UNCHANGED <<game_over_events, panicked, ticks>>

---------------------------------------------------------------------------
(* Startup: setup, game_setup, and the resources of main *)

\* the resources and locals at startup
Resources ==
    /\ commands = <<>>
    /\ game_over_events = 0
    /\ keys = {}
    /\ finished = FALSE
    /\ food_finished = FALSE
    /\ moved_dir = NoDirection
    /\ dir = NoDirection
    /\ last_position = NoPosition
    /\ segment_entity = None
    /\ self_hits = 0
    /\ wall_hit = FALSE
    /\ eaten = 0
    /\ panicked = FALSE
    /\ ticks = 0
    /\ pc = "snake_movement"

NoWorld == [heads |-> <<>>, segments |-> <<>>, positions |-> <<>>, food |-> {}]

\* game_setup: spawn_initial_snake on the empty world, where the first
\* segment gets entity 1 and the head entity 2
Init ==
    /\ LET w == ApplyAll(NoWorld,
                     <<[op |-> "spawn_segment", entity |-> 1,
                        next_segment |-> None, position |-> Pos(10, 9)],
                       [op |-> "spawn_head", entity |-> 2, direction |-> "Up",
                        next_segment |-> 1, position |-> Pos(10, 10)]>>)
       IN  /\ heads = w.heads
           /\ segments = w.segments
           /\ positions = w.positions
           /\ food = w.food
    /\ Resources

\* Snakes of a head and two segments that a game has brought to a corner of
\* the arena: one heading up the left wall from the bottom row, one heading
\* up the right wall below the top row.
EdgeSnakes ==
    {<<Pos(0, 1), Pos(0, 0), Pos(1, 0)>>, <<Pos(40, 39), Pos(40, 38), Pos(40, 37)>>}

InitEdge ==
    /\ \E snake \in EdgeSnakes :
        /\ heads = (2 :> [direction |-> "Up", next_segment |-> 1])
        /\ segments = (1 :> [next_segment |-> 3]) @@ (3 :> [next_segment |-> None])
        /\ positions = (2 :> snake[1]) @@ (1 :> snake[2]) @@ (3 :> snake[3])
        /\ food = {}
    /\ Resources

Next ==
    \/ snake_movement
    \/ food_spawner
    \/ game_over_system
    \/ apply_commands

Spec == Init /\ [][Next]_vars

\* the same program, started from the snakes at the corners
SpecEdge == InitEdge /\ [][Next]_vars

\* the frames of a player who never touches a key
NextStraight ==
    \/ snake_straight
    \/ food_spawner
    \/ game_over_system
    \/ apply_commands

SpecStraight == Init /\ [][NextStraight]_vars

\* the same player, with food from the whole range of the random draw
NextFood ==
    \/ snake_coasting
    \/ food_wide
    \/ game_over_system
    \/ apply_commands

SpecFood == Init /\ [][NextFood]_vars

---------------------------------------------------------------------------
(* Vocabulary of the properties *)

\* the segments reached from entity e over next_segment links, as far as the
\* links lead to segments that exist in the world segs
RECURSIVE ChainFrom(_, _)
ChainFrom(e, segs) ==
    IF e = None \/ e \notin DOMAIN segs THEN <<>>
    ELSE <<e>> \o ChainFrom(segs[e].next_segment, segs)

\* the chain behind the head of the world (hs, segs)
ChainOf(hs, segs) ==
    ChainFrom(hs[CHOOSE h \in DOMAIN hs : TRUE].next_segment, segs)

\* the frame's commands hold a reset (only the controller spawns a head)
ResetQueued(cmds) == \E i \in 1..Len(cmds) : cmds[i].op = "spawn_head"

OutOfArena(p) == p.x < 0 \/ p.y < 0 \/ p.x > ARENA_WIDTH \/ p.y > ARENA_HEIGHT

\* the movement engine has just run a frame in which the move timer elapsed
Moved == pc = "food_spawner" /\ finished /\ ~panicked

---------------------------------------------------------------------------
(* C1 *)

\* the world holds the initial snake and nothing else of the snake, and no
\* food of the world before
InitialSnakeOnly(hs, segs, pos, fd, old_food) ==
    /\ Cardinality(DOMAIN hs) = 1
    /\ \A h \in DOMAIN hs :
        /\ pos[h] = Pos(10, 10)
        /\ hs[h].direction = "Up"
        /\ DOMAIN segs = {hs[h].next_segment}
    /\ \A e \in DOMAIN segs : pos[e] = Pos(10, 9) /\ segs[e].next_segment = None
    /\ fd \cap old_food = {}

\* C1: in every frame in which the controller saw a GameOverEvent, the world
\* after the frame's commands holds exactly one head, at (10,10) facing Up,
\* exactly one segment, at (10,9), ending the chain and linked from the head,
\* and no food entity that existed before.
C1_ResetComplete ==
    [][(pc = "apply_commands" /\ ResetQueued(commands))
        => InitialSnakeOnly(heads', segments', positions', food', food)]_vars

---------------------------------------------------------------------------
(* C2 *)

\* C2: on an elapsed movement tick with chain positions [P0, P1, .., Pn]
\* the head moves to P0 advanced in the committed direction, every segment
\* takes the position the entity ahead of it had before the tick, and
\* last_position ends as Pn.
C2_ShiftCorrect ==
    [][(pc = "snake_movement" /\ finished' /\ ~panicked' /\ DOMAIN heads # {})
        => LET h == TheHead
               chain == ChainOf(heads, segments)
               n == Len(chain)
           IN  /\ n >= 1
               /\ positions'[h] = Advance(positions[h], heads'[h].direction)
               /\ \A i \in 1..n :
                    positions'[chain[i]] =
                        IF i = 1 THEN positions[h] ELSE positions[chain[i - 1]]
               /\ last_position' = positions[chain[n]]]_vars

\* a tick has shifted a chain of two or more segments
C2_Witness == Moved /\ Len(ChainOf(heads, segments)) >= 2

---------------------------------------------------------------------------
(* C3 *)

\* C3: when the candidate direction is the opposite of the head's direction D
\* the commit leaves D in place, and no commit turns the direction into the
\* opposite of what it was.
C3_OppositeGuard ==
    [][(pc = "snake_movement" /\ DOMAIN heads # {})
        => LET h == TheHead
               D == heads[h].direction
           IN  /\ dir' = opposite(D) => heads'[h].direction = D
               /\ heads'[h].direction # opposite(D)]_vars

\* Down was the candidate against a head facing Up, which still faces Up
C3_Witness ==
    /\ pc = "food_spawner"
    /\ keys = {"Down"}
    /\ dir = "Down"
    /\ heads[TheHead].direction = "Up"

---------------------------------------------------------------------------
(* C4 *)

\* the queued despawns have all taken effect in the world with entities live
AllDespawned(cmds, live) ==
    \A i \in 1..Len(cmds) : cmds[i].op = "despawn" => cmds[i].entity \notin live

\* C4: a tick on which k >= 2 food entities lie on the head's new position
\* leaves a chain k segments longer for the next tick, and none of the k
\* food entities.
C4_EachFoodGrows ==
    [][(pc = "apply_commands" /\ eaten >= 2 /\ ~ResetQueued(commands))
        => /\ Len(ChainOf(heads', segments'))
                = Len(ChainOf(heads, segments)) + eaten
           /\ AllDespawned(commands, DOMAIN positions')]_vars

---------------------------------------------------------------------------
(* C5 *)

\* C5: from one step to the next the chain never gets shorter unless the step
\* resets the game, and it gets longer only by a movement tick that ate food,
\* by one segment per food eaten.
C5_ChainMonotone ==
    [][LET before == Len(ChainOf(heads, segments))
           after == Len(ChainOf(heads', segments'))
       IN  /\ after < before => pc = "apply_commands" /\ ResetQueued(commands)
           /\ after > before =>
                /\ pc = "apply_commands"
                /\ finished
                /\ eaten >= 1
                /\ after = before + eaten]_vars

---------------------------------------------------------------------------
(* C6 *)

\* C6: after the head's advance on an elapsed tick the wall check sends a
\* GameOverEvent exactly when the head's x or y is negative or greater than
\* the arena's width or height; a coordinate equal to the bound is legal.
C6_WallBound ==
    (Moved /\ DOMAIN heads # {})
        => LET out == OutOfArena(positions[TheHead])
           IN  /\ wall_hit <=> out
               /\ game_over_events = self_hits + (IF out THEN 1 ELSE 0)

\* the head has advanced onto the corner (ARENA_WIDTH, ARENA_HEIGHT) and no
\* event was sent
C6_Witness ==
    /\ Moved
    /\ positions[TheHead] = Pos(ARENA_WIDTH, ARENA_HEIGHT)
    /\ ~wall_hit
    /\ game_over_events = 0

---------------------------------------------------------------------------
(* C7 *)

\* C7: a tick on which exactly one food entity lies on the head's new
\* position queues a new segment at last_position (the old tail's position
\* before the tick) with no successor, links the old tail to it and queues
\* the food's despawn; after the frame the chain is one segment longer, ends
\* in the new segment at that position, and the food is gone.
C7_SingleFood ==
    [][/\ (pc = "snake_movement" /\ finished' /\ ~panicked' /\ DOMAIN heads # {}
            /\ Cardinality({e \in food : positions[e] = positions'[TheHead]}) = 1)
          => LET f == CHOOSE e \in food : positions[e] = positions'[TheHead]
                 chain == ChainOf(heads, segments)
                 tail == chain[Len(chain)]
                 n == Len(commands')
             IN  /\ n = Len(commands) + 2
                 /\ SubSeq(commands', 1, n - 2) = commands
                 /\ commands'[n - 1].op = "spawn_segment"
                 /\ commands'[n - 1].position = positions[tail]
                 /\ commands'[n - 1].position = last_position'
                 /\ commands'[n - 1].next_segment = None
                 /\ commands'[n - 1].entity \notin DOMAIN positions
                 /\ segments'[tail].next_segment = commands'[n - 1].entity
                 /\ commands'[n] = [op |-> "despawn", entity |-> f]
                 /\ eaten' = 1
       /\ (pc = "apply_commands" /\ eaten = 1 /\ ~ResetQueued(commands))
          => LET old == ChainOf(heads, segments)
                 new == ChainOf(heads', segments')
             IN  /\ Len(new) = Len(old) + 1
                 /\ SubSeq(new, 1, Len(old)) = old
                 /\ positions'[new[Len(new)]] = last_position
                 /\ segments'[new[Len(new)]].next_segment = None
                 /\ AllDespawned(commands, DOMAIN positions')]_vars

\* a snake of a head and one segment has eaten one food on this frame's tick
C7_Witness ==
    /\ pc = "apply_commands"
    /\ eaten = 1
    /\ ~ResetQueued(commands)
    /\ Len(ChainOf(heads, segments)) = 1

---------------------------------------------------------------------------
(* C8 *)

\* C8: however many GameOverEvents the controller finds unread, it queues one
\* teardown (one despawn per segment, food and head of the world) and one
\* respawn, and leaves no event unread; so a reset is only ever queued in a
\* frame whose own movement tick sent an event.
C8_OneResetPerBatch ==
    [][pc = "game_over_system"
        => /\ game_over_events >= 1
                => /\ Len(commands') = Len(commands) + Cardinality(DOMAIN segments)
                        + Cardinality(food) + Cardinality(DOMAIN heads) + 2
                   /\ Cardinality({i \in 1..Len(commands') :
                                     commands'[i].op = "spawn_head"}) = 1
           /\ game_over_events = 0 => commands' = commands
           /\ game_over_events' = 0
           /\ ResetQueued(commands')
                => self_hits + (IF wall_hit THEN 1 ELSE 0) >= 1]_vars

\* the controller is about to check with two or more events unread
C8_Witness == pc = "game_over_system" /\ game_over_events >= 2

---------------------------------------------------------------------------
(* C9 *)

\* the first direction of the sequence order that is pressed, or fallback
PriorityPick(ks, order, fallback) ==
    IF \E i \in 1..Len(order) : order[i] \in ks
    THEN order[CHOOSE i \in 1..Len(order) :
                  order[i] \in ks /\ \A j \in 1..(i - 1) : order[j] \notin ks]
    ELSE fallback

\* C9 as stated: the candidate direction is the first pressed key in the
\* priority order Left, Right, Down, Up, and the head's direction when no key
\* is pressed.
C9_FirstPressedWins ==
    [][(pc = "snake_movement" /\ DOMAIN heads # {})
        => dir' = PriorityPick(keys', <<"Left", "Right", "Down", "Up">>,
                               heads[TheHead].direction)]_vars

\* C9 amended: the candidate direction is the last pressed key in the polling
\* order Left, Right, Down, Up, that is the first pressed key in the priority
\* order Up, Down, Right, Left, and the head's direction when no key is
\* pressed.
C9_LastPolledWins ==
    [][(pc = "snake_movement" /\ DOMAIN heads # {})
        => dir' = PriorityPick(keys', <<"Up", "Down", "Right", "Left">>,
                               heads[TheHead].direction)]_vars

\* Left and Up were down together and Up became the candidate
C9_Witness == pc = "food_spawner" /\ keys = {"Left", "Up"} /\ dir = "Up"

---------------------------------------------------------------------------
(* C10 *)

\* C10 as stated: on an elapsed tick the tail check sends a GameOverEvent
\* whenever a segment's position after the shift equals the head's position
\* before its move.
C10_PostShiftCheck ==
    [][(pc = "snake_movement" /\ finished' /\ ~panicked' /\ DOMAIN heads # {})
        => LET chain == ChainOf(heads, segments)
           IN  (\E i \in 1..Len(chain) :
                    positions'[chain[i]] = positions[TheHead])
                => self_hits' >= 1]_vars

\* C10 amended: on an elapsed tick the tail check sends a GameOverEvent
\* whenever a segment's position before the shift equals the head's position
\* before its move.
C10_PreShiftCheck ==
    [][(pc = "snake_movement" /\ finished' /\ ~panicked' /\ DOMAIN heads # {})
        => LET chain == ChainOf(heads, segments)
           IN  (\E i \in 1..Len(chain) :
                    positions[chain[i]] = positions[TheHead])
                => /\ self_hits' >= 1
                   /\ game_over_events' >= game_over_events + 1]_vars

\* a tick on which the tail check sent an event
C10_Witness == Moved /\ self_hits >= 1

---------------------------------------------------------------------------
(* C11 *)

\* C11: from the initial snake, with no key ever down and no food on the
\* head's way, after n elapsed ticks, as long as 10 + n <= ARENA_HEIGHT, the
\* head is at (10, 10 + n), its one segment at (10, 9 + n), and no
\* GameOverEvent has been sent: none is unread, none was sent by the tick just
\* run, and no reset is queued.
C11_StraightRun ==
    10 + ticks <= ARENA_HEIGHT
    => /\ Cardinality(DOMAIN heads) = 1
       /\ Len(ChainOf(heads, segments)) = 1
       /\ positions[TheHead] = Pos(10, 10 + ticks)
       /\ positions[ChainOf(heads, segments)[1]] = Pos(10, 9 + ticks)
       /\ game_over_events = 0
       /\ self_hits = 0
       /\ ~wall_hit
       /\ ~ResetQueued(commands)

\* the fifth tick of the straight run has just moved the head to (10, 15)
C11_Witness ==
    /\ Moved
    /\ ticks = 5
    /\ positions[TheHead] = Pos(10, 15)
    /\ food # {}

---------------------------------------------------------------------------
(* C12 *)

\* C12: within a frame snake_movement runs before food_spawner, and
\* food_spawner before game_over_system: no food is spawned before the
\* movement has run and no reset is queued before the controller has run.
\* Every GameOverEvent sent by snake_movement is read by the controller in
\* the same frame: the events unread when the controller runs are those of
\* this frame's tick, a frame whose tick sent an event ends with the reset
\* queued (the head's despawn and the new head), and no event is left unread
\* at the end of a frame.
C12_SameStepReset ==
    /\ pc \in {"snake_movement", "food_spawner"} => ~food_finished
    /\ pc \in {"snake_movement", "food_spawner", "game_over_system"}
        => ~ResetQueued(commands)
    /\ pc \in {"food_spawner", "game_over_system"}
        => game_over_events = self_hits + (IF wall_hit THEN 1 ELSE 0)
    /\ pc = "apply_commands"
        => /\ game_over_events = 0
           /\ (self_hits >= 1 \/ wall_hit)
               => /\ ResetQueued(commands)
                  /\ \A h \in DOMAIN heads :
                        \E i \in 1..Len(commands) :
                            commands[i] = [op |-> "despawn", entity |-> h]
    /\ pc = "snake_movement" => game_over_events = 0 /\ commands = <<>>

\* a frame whose tick sent an event is about to end
C12_Witness ==
    /\ pc = "apply_commands"
    /\ finished
    /\ self_hits + (IF wall_hit THEN 1 ELSE 0) >= 1
    /\ ResetQueued(commands)

---------------------------------------------------------------------------
(* C13 *)

\* C13: in a frame in which the move timer has not elapsed, snake_movement
\* changes no Position and no next_segment link, queues no spawn and no
\* despawn and sends no GameOverEvent; it still commits the head's direction:
\* the candidate of this frame's keys unless that is the opposite of the
\* current direction.
C13_TimerGating ==
    [][(pc = "snake_movement" /\ ~finished' /\ DOMAIN heads # {})
        => /\ positions' = positions
           /\ segments' = segments
           /\ food' = food
           /\ commands' = commands
           /\ game_over_events' = game_over_events
           /\ self_hits' = 0
           /\ ~wall_hit'
           /\ DOMAIN heads' = DOMAIN heads
           /\ heads'[TheHead].next_segment = heads[TheHead].next_segment
           /\ heads'[TheHead].direction =
                IF dir' # opposite(heads[TheHead].direction)
                THEN dir' ELSE heads[TheHead].direction]_vars

\* a frame without a tick has turned the head
C13_Witness ==
    /\ pc = "food_spawner"
    /\ ~finished
    /\ ticks = 1
    /\ positions[TheHead] = Pos(10, 11)
    /\ keys = {"Right"}
    /\ heads[TheHead].direction = "Right"

---------------------------------------------------------------------------
(* C14 *)

\* the links from e lead over live segments that carry a Position, none of
\* them in seen or met twice, to a segment without a successor
RECURSIVE LinksSound(_, _)
LinksSound(e, seen) ==
    /\ e \in DOMAIN segments
    /\ e \in DOMAIN positions
    /\ e \notin seen
    /\ \/ segments[e].next_segment = None
       \/ LinksSound(segments[e].next_segment, seen \cup {e})

\* C14: at the start of every frame there is exactly one SnakeHead, it
\* carries a Position, and the next_segment links from it lead over live
\* SnakeSegment entities carrying a Position, without a cycle, to a segment
\* whose next_segment is None; and no lookup of the shift loop has ever
\* failed.
C14_ChainWellFormed ==
    /\ ~panicked
    /\ pc = "snake_movement"
        => /\ Cardinality(DOMAIN heads) = 1
           /\ TheHead \in DOMAIN positions
           /\ LinksSound(heads[TheHead].next_segment, {})

\* a frame starts with a chain that has grown
C14_Witness ==
    /\ pc = "snake_movement"
    /\ ticks >= 1
    /\ Len(ChainOf(heads, segments)) >= 2

---------------------------------------------------------------------------
(* C15 *)

InFoodRange(p) ==
    /\ 0 <= p.x /\ p.x < ARENA_WIDTH
    /\ 0 <= p.y /\ p.y < ARENA_HEIGHT

\* C15: in a frame in which the food timer elapsed food_spawner queues
\* exactly one spawn, of a Food entity at integer coordinates with
\* 0 <= x < ARENA_WIDTH and 0 <= y < ARENA_HEIGHT, and in any other frame it
\* queues nothing; it changes nothing in the world. Every Food entity of the
\* world comes from such a spawn, lies in that range, and keeps its position
\* as long as it exists.
C15_FoodSpawner ==
    [][/\ pc = "food_spawner"
           => /\ positions' = positions /\ food' = food
              /\ IF food_finished'
                 THEN /\ Len(commands') = Len(commands) + 1
                      /\ SubSeq(commands', 1, Len(commands)) = commands
                      /\ commands'[Len(commands')].op = "spawn_food"
                      /\ commands'[Len(commands')].entity \notin Live
                      /\ InFoodRange(commands'[Len(commands')].position)
                 ELSE commands' = commands
       /\ pc # "food_spawner"
           => \A i \in 1..Len(commands') :
                 commands'[i].op = "spawn_food"
                 => i <= Len(commands) /\ commands[i] = commands'[i]
       /\ \A e \in food' : InFoodRange(positions'[e])
       /\ \A e \in food \cap food' : positions'[e] = positions[e]
       /\ \A e \in food' \ food :
             /\ pc = "apply_commands"
             /\ \E i \in 1..Len(commands) :
                   commands[i] = [op |-> "spawn_food", entity |-> e,
                                  position |-> positions'[e]]]_vars

\* food has been spawned on the cell the head is on, and in the corner of
\* the greatest draws
C15_Witness ==
    /\ pc = "snake_movement"
    /\ \E e \in food : positions[e] = positions[TheHead]
    /\ \E e \in food : positions[e] = Pos(ARENA_WIDTH - 1, ARENA_HEIGHT - 1)

---------------------------------------------------------------------------
(* C16 *)

\* the head of the world (hs, segs, pos) is on the cell of a segment of its
\* chain
HeadOnChain(hs, segs, pos) ==
    /\ DOMAIN hs # {}
    /\ LET chain == ChainOf(hs, segs)
           h == CHOOSE e \in DOMAIN hs : TRUE
       IN  \E i \in 1..Len(chain) : pos[chain[i]] = pos[h]

\* this step is snake_movement in a frame in which the move timer elapsed
Tick == pc = "snake_movement" /\ finished' /\ ~panicked' /\ DOMAIN heads # {}

\* C16 as stated: on an elapsed tick the tail check sends a GameOverEvent
\* iff a chain segment's position before the shift equals the head's
\* position before its move; whenever the head advances onto a cell that a
\* chain segment has after the shift, the tail check sends no event in that
\* tick, and it sends one on the next elapsed tick: the head stays on the
\* chain until a reset.
C16_AlwaysOneTickLate ==
    [][/\ Tick => (self_hits' >= 1 <=> HeadOnChain(heads, segments, positions))
       /\ (Tick /\ HeadOnChain(heads', segments, positions')) => self_hits' = 0
       /\ (~Tick /\ HeadOnChain(heads, segments, positions)
                  /\ ~(pc = "apply_commands" /\ ResetQueued(commands)))
           => HeadOnChain(heads', segments', positions')]_vars

\* C16 amended: on an elapsed tick the tail check sends a GameOverEvent iff
\* a chain segment's position before the shift equals the head's position
\* before its move; whenever the head advances onto a cell that a chain
\* segment has after the shift, and was on no chain segment's cell before
\* the tick, no GameOverEvent at all is sent in that tick, and the tail check
\* sends one on the next elapsed tick: the head stays on the chain until
\* that tick, as only a frame whose tick sent an event ends in a reset.
C16_OneTickLate ==
    [][/\ Tick => (self_hits' >= 1 <=> HeadOnChain(heads, segments, positions))
       /\ (Tick /\ HeadOnChain(heads', segments, positions')
                 /\ ~HeadOnChain(heads, segments, positions))
           => /\ self_hits' = 0
              /\ ~wall_hit'
              /\ game_over_events' = 0
       /\ (pc = "apply_commands" /\ ResetQueued(commands))
           => (finished /\ (self_hits >= 1 \/ wall_hit))
       /\ (~Tick /\ HeadOnChain(heads, segments, positions)
                  /\ ~(pc = "apply_commands" /\ ResetQueued(commands)))
           => HeadOnChain(heads', segments', positions')]_vars

\* a tick has moved the head onto a segment of its chain, from a cell on
\* which no segment was, and no event was sent
C16_Witness ==
    /\ Moved
    /\ HeadOnChain(heads, segments, positions)
    /\ Len(ChainOf(heads, segments)) = 2
    /\ self_hits = 0
    /\ game_over_events = 0

---------------------------------------------------------------------------
(* C17 *)

\* C17: the direction in which an elapsed tick advances the head is never the
\* opposite of the direction in which the previous elapsed tick of the same
\* game advanced it, whatever was committed in the frames between the two.
C17_NoReversal ==
    [][(Tick /\ moved_dir # NoDirection)
        => heads'[TheHead].direction # opposite(moved_dir)]_vars

---------------------------------------------------------------------------
(* C18 *)

\* C18: at the start of every frame, after the systems of the frame before
\* and their commands, the head has 0 <= x <= ARENA_WIDTH and
\* 0 <= y <= ARENA_HEIGHT: a head outside is seen only within the frame
\* whose tick moved it there, which sent the wall event, and that frame ends
\* with the queued reset that puts a head at (10, 10).
C18_HeadInArena ==
    /\ pc = "snake_movement"
        => /\ DOMAIN heads # {}
           /\ \A h \in DOMAIN heads : ~OutOfArena(positions[h])
    /\ \A h \in DOMAIN heads :
          OutOfArena(positions[h])
          => /\ finished /\ wall_hit
             /\ pc = "apply_commands"
                 => \E i \in 1..Len(commands) :
                       /\ commands[i].op = "spawn_head"
                       /\ commands[i].position = Pos(10, 10)

\* the frame after the one whose first tick took the head of a corner snake
\* out of the arena starts with the head at (10, 10)
C18_Witness ==
    /\ pc = "snake_movement"
    /\ ticks = 1
    /\ positions[TheHead] = Pos(10, 10)
    /\ moved_dir = NoDirection

====
